---- MODULE Spec2Model ----
(***************************************************************************)
(* Model of Backend/app.py: the Flask backend behind the contact form and  *)
(* the job-application form.  State: the applications.json store file,    *)
(* the resumes directory, and for every worker thread the request it is    *)
(* handling, its position in the handler and its local variables.          *)
(***************************************************************************)
EXTENDS Integers, Sequences, FiniteSets, TLC

\* ------------------------------------------------------------------ bounds
\* Requests the environment sends in one run (caps the uuid counter too).
MaxRequests == 3

\* Worker threads of the server (app.run is threaded).
Procs == {"w1", "w2"}

VARIABLES
    lastFault,     \* response of the latest earlier request that hit the
                   \* handler's catch-all except clause (history)
    pc,            \* pc[p]: position of worker p in its handler
    req,           \* req[p]: the request worker p is handling
    resp,          \* resp[p]: the last response worker p returned
    applications,  \* applications[p]: local list of save_application_data
    data,          \* data[p]: application_data built by submit_application
    saved,         \* saved[p]: outcome of save_application_data for the request
    mails,         \* mails[p]: emails attempted while handling the request
    career,        \* career[p]: outcome of send_career_reply_email, and
                   \* what it met: the template, the logo file once the
                   \* template was read, the relay once the message was sent
    store,         \* the file APPLICATIONS_DB
    resumes,       \* names of the files in RESUMES_FOLDER
    nextUuid,      \* source of fresh uuid4 values
    before,        \* before[p]: store file and resumes directory when the
                   \* request arrived (history)
    snap,          \* snap[p]: array the worker read from the store (history)
    nStarted,      \* requests received so far (history)
    nOk,           \* application submissions answered 200 (history)
    nFailed,       \* application submissions answered 500 (history)
    fault          \* fault[p]: str(e) the catch-all except clause logged

vars == <<pc, req, resp, applications, data, saved, mails, career, store,
          resumes, nextUuid, before, snap, nStarted, nOk, nFailed,
          fault, lastFault>>

\* ------------------------------------------------------- strings as tuples
SpaceChars == {" ", "\n", "\t"}
DigitChars == {"0", "1", "2", "3", "4", "5", "6", "7", "8", "9"}

IsSpace(c) == c \in SpaceChars
IsDigit(c) == c \in DigitChars
\* [^\s@]
NotSpaceAt(c) == ~IsSpace(c) /\ c # "@"

\* str.strip(): drop leading and trailing whitespace.
RECURSIVE LStrip(_)
LStrip(s) == IF s # <<>> /\ IsSpace(Head(s)) THEN LStrip(Tail(s)) ELSE s

RECURSIVE RStrip(_)
RStrip(s) ==
    IF s # <<>> /\ IsSpace(s[Len(s)]) THEN RStrip(SubSeq(s, 1, Len(s) - 1)) ELSE s

Strip(s) == RStrip(LStrip(s))

\* Positions at which the regex anchor `$` matches in s (no MULTILINE flag):
\* the end of the string, and just before a line break that ends the string.
DollarEnds(s) ==
    {Len(s)} \cup (IF Len(s) > 0 /\ s[Len(s)] = "\n" THEN {Len(s) - 1} ELSE {})

\* Digits of the phone pattern: one of [6-9] and then \d{9}.
PhoneDigits == 10

\* s[1..e] is [6-9]\d{9}
PhoneShapeAt(s, e) ==
    /\ e = PhoneDigits
    /\ s[1] \in {"6", "7", "8", "9"}
    /\ \A i \in 2..e : IsDigit(s[i])

\* re.match(r'^[6-9]\d{9}$', s)
PhoneMatch(s) == \E e \in DollarEnds(s) : PhoneShapeAt(s, e)

\* Least length of the last label in the email pattern: {2,}
MinTld == 2

\* s[1..e] is [^\s@]+@[^\s@]+\.[^\s@]{2,}: the "@" at i, the "." at j
EmailShapeAt(s, e) ==
    \E i \in 1..e : \E j \in 1..e :
        /\ s[i] = "@"
        /\ s[j] = "."
        /\ i >= 2
        /\ j >= i + 2
        /\ e - j >= MinTld
        /\ \A k \in 1..(i - 1) : NotSpaceAt(s[k])
        /\ \A k \in (i + 1)..(j - 1) : NotSpaceAt(s[k])
        /\ \A k \in (j + 1)..e : NotSpaceAt(s[k])

\* re.match(r'^[^\s@]+@[^\s@]+\.[^\s@]{2,}$', s)
EmailMatch(s) == \E e \in DollarEnds(s) : EmailShapeAt(s, e)

\* ------------------------------------------------------------ the requests
RequiredContact == {"name", "email", "subject", "message"}

\* required_fields of submit_application
RequiredFields ==
    {"firstName", "lastName", "email", "phone", "workExp", "applyingFor",
     "github", "linkedin"}

Restrict(f, S) == [k \in S |-> f[k]]

\* Values a contact field takes in the requests of the model.
ContactValues == {<<>>, <<" ">>, <<"h", "i">>}

\* A complete, well-formed contact object.
GoodContact == [k \in RequiredContact |-> <<"h", "i">>]

\* JSON object bodies: the good one; one key missing or holding another
\* value; every key holding the same value; the empty object.
ContactObjects ==
    {GoodContact}
        \cup {Restrict(GoodContact, RequiredContact \ {k}) : k \in RequiredContact}
        \cup {[GoodContact EXCEPT ![k] = v] : k \in RequiredContact, v \in ContactValues}
        \cup {[k \in RequiredContact |-> v] : v \in ContactValues}
        \cup {Restrict(GoodContact, {})}

\* JSON bodies of a contact request: an object, or a JSON value that is none.
ContactPayloads ==
    {[shape |-> "object", fields |-> f] : f \in ContactObjects}
        \cup {[shape |-> sh, fields |-> <<>>] : sh \in {"null", "array"}}

GoodPhone == <<"9", "1", "2", "3", "4", "5", "6", "7", "8", "9">>
GoodEmail == <<"a", "@", "b", ".", "c", "o">>

Phones ==
    { GoodPhone,
      <<"5">> \o Tail(GoodPhone),
      SubSeq(GoodPhone, 1, 9),
      GoodPhone \o <<"0">>,
      GoodPhone \o <<"\n">>,
      GoodPhone \o <<"\n", "\n">>,
      GoodPhone \o <<" ">>,
      SubSeq(GoodPhone, 1, 9) \o <<"a">>,
      <<" ">> }

Emails ==
    { GoodEmail,
      <<"a", "b", ".", "c", "o">>,
      <<"a", "@", "b", ".", "c">>,
      <<"a", "@", "b", "c", "o">>,
      <<"a", "@", "@", "b", ".", "c", "o">>,
      <<"a", " ", "@", "b", ".", "c", "o">>,
      GoodEmail \o <<"\n">>,
      GoodEmail \o <<" ">>,
      <<>> }

\* Values of the required fields that have no format check.
TextValues == {<<"x">>, <<" ", "\t">>, <<>>}

FullForm(fn, em, ph, li) ==
    [k \in RequiredFields |->
        CASE k = "firstName" -> fn
          [] k = "email" -> em
          [] k = "phone" -> ph
          [] k = "linkedin" -> li
          [] OTHER -> <<"x">>]

\* request.files.get('resume'): no part, a part with an empty filename, a file.
Uploads == {"none", "noname", "file"}

\* A well-formed application form.
GoodForm == FullForm(<<"x">>, GoodEmail, GoodPhone, <<"x">>)

\* Application requests (request.form.to_dict() and the resume part): every
\* email and every phone in an otherwise good request; every combination of
\* a good or bad value for the four checks; a missing key; a bad upload.
AppRequests ==
    {[form |-> FullForm(<<"x">>, em, GoodPhone, <<"x">>), upload |-> "file"] :
        em \in Emails}
    \cup
    {[form |-> FullForm(<<"x">>, GoodEmail, ph, <<"x">>), upload |-> "file"] :
        ph \in Phones}
    \cup
    {[form |-> FullForm(fn, em, ph, <<"x">>), upload |-> up] :
        fn \in {<<"x">>, <<" ", "\t">>},
        em \in {GoodEmail, <<"a", "b", ".", "c", "o">>},
        ph \in {GoodPhone, <<"5">> \o Tail(GoodPhone)},
        up \in {"file", "none"}}
    \cup
    {[form |-> Restrict(GoodForm, RequiredFields \ {k}), upload |-> "file"] :
        k \in {"firstName", "phone", "linkedin"}}
    \cup
    {[form |-> FullForm(<<"x">>, GoodEmail, GoodPhone, li), upload |-> up] :
        li \in TextValues, up \in Uploads}

NoReq == [kind |-> "none"]
NoResp == [status |-> 0, success |-> FALSE, msg |-> "", detail |-> ""]
NoData == [id |-> 0, resume_path |-> 0]
NoCareer ==
    [called |-> FALSE, result |-> FALSE, logo |-> FALSE,
     template |-> "", logoFile |-> "", smtpOk |-> FALSE]
EmptyStore == [exists |-> TRUE, corrupt |-> FALSE, recs |-> <<>>]
MissingStore == [exists |-> FALSE, corrupt |-> FALSE, recs |-> <<>>]
NoBefore == [store |-> MissingStore, resumes |-> {}]
NoFault == [kind |-> "none", cause |-> "", resp |-> NoResp]

Init ==
    /\ pc = [p \in Procs |-> "idle"]
    /\ req = [p \in Procs |-> NoReq]
    /\ resp = [p \in Procs |-> NoResp]
    /\ applications = [p \in Procs |-> <<>>]
    /\ data = [p \in Procs |-> NoData]
    /\ saved = [p \in Procs |-> "none"]
    /\ mails = [p \in Procs |-> {}]
    /\ career = [p \in Procs |-> NoCareer]
    /\ store \in {MissingStore, EmptyStore}
    /\ resumes = {}
    /\ nextUuid = 1
    /\ before = [p \in Procs |-> NoBefore]
    /\ snap = [p \in Procs |-> <<>>]
    /\ nStarted = 0
    /\ nOk = 0
    /\ nFailed = 0
    /\ fault = [p \in Procs |-> ""]
    /\ lastFault = NoFault

\* --------------------------------------------------------------- responses
Resp(st, ok, m, d) == [status |-> st, success |-> ok, msg |-> m, detail |-> d]

\* str(e) of the exception data.get raises when request.json is no object.
FaultDetail(shape) ==
    CASE shape = "null" -> "'NoneType' object has no attribute 'get'"
      [] shape = "array" -> "'list' object has no attribute 'get'"
      [] OTHER -> ""

\* except clause of submit_contact: the message embeds str(e).
ContactFault(detail) ==
    Resp(500, FALSE, "An unexpected error occurred on the server: ", detail)

\* except clause of submit_application: a fixed message.
AppFault(detail) ==
    Resp(500, FALSE, "An unexpected error occurred. Please try again later.", "")

\* str(e) of the exception resume_file.save raises.
SaveError(io) ==
    CASE io = "open_fails" -> "[Errno 13] Permission denied"
      [] io = "write_fails" -> "[Errno 28] No space left on device"
      [] OTHER -> ""

\* ---------------------------------------------------------- submit_contact
\* all([name, email, subject, message]): data.get gives None for a missing
\* key, and None and the empty string are the falsy values.
ContactValid(fields) ==
    \A k \in RequiredContact : k \in DOMAIN fields /\ fields[k] # <<>>

\* mail.send inside try/except in send_contact_reply_email: the flag returned.
SendContactReply(smtpOk) == smtpOk

\* response_message and the two continuations it gets (lines 201-205).
ContactOkText == "Your inquiry has been submitted successfully!"
ContactSentText == " You'll receive a confirmation email shortly."
ContactNotSentText ==
    " There was an issue sending a confirmation email, but we received your message and will contact you soon."

\* Variant: a failed confirmation email fails the request.
ContactResponseStrict(client_email_sent) ==
    IF client_email_sent
    THEN Resp(200, TRUE, ContactOkText \o ContactSentText, "")
    ELSE Resp(500, FALSE, "An unexpected error occurred on the server: ", "")

\* Response of submit_contact after the two sends.
ContactResponse(client_email_sent) ==
    IF client_email_sent
    THEN Resp(200, TRUE, ContactOkText \o ContactSentText, "")
    ELSE Resp(200, TRUE, ContactOkText \o ContactNotSentText, "")

ContactMissing ==
    Resp(400, FALSE,
         "All required fields (Name, Email, Subject, Message) are missing.", "")

\* Emails submit_contact attempts: the company notification when
\* RECEIVER_EMAIL is set, then the client confirmation.
ContactMails(receiver, companyOk, clientOk) ==
    (IF receiver
     THEN {[kind |-> "company", delivered |-> companyOk]}
     ELSE {})
        \cup {[kind |-> "client", delivered |-> SendContactReply(clientOk)]}

\* The whole handler: it touches no shared state but the mail relay.
\* receiver: whether os.getenv('RECEIVER_EMAIL') gives an address.
SubmitContact(p, payload, receiver, companyOk, clientOk) ==
    /\ pc[p] = "idle"
    /\ nStarted < MaxRequests
    /\ nStarted' = nStarted + 1
    /\ req' = [req EXCEPT ![p] =
                  [kind |-> "contact", payload |-> payload, receiver |-> receiver]]
    /\ pc' = [pc EXCEPT ![p] = "done"]
    /\ IF payload.shape # "object"
       THEN /\ resp' = [resp EXCEPT ![p] = ContactFault(FaultDetail(payload.shape))]
            /\ fault' = [fault EXCEPT ![p] = FaultDetail(payload.shape)]
            /\ mails' = [mails EXCEPT ![p] = {}]
       ELSE IF ~ContactValid(payload.fields)
       THEN /\ resp' = [resp EXCEPT ![p] = ContactMissing]
            /\ mails' = [mails EXCEPT ![p] = {}]
            /\ UNCHANGED fault
       ELSE /\ mails' = [mails EXCEPT ![p] = ContactMails(receiver, companyOk, clientOk)]
            /\ resp' = [resp EXCEPT ![p] =
                            ContactResponse(SendContactReply(clientOk))]
            /\ UNCHANGED fault
    /\ UNCHANGED <<applications, data, saved, career, store, resumes, nextUuid,
                   before, snap, nOk, nFailed, lastFault>>

\* ------------------------------------------------------ submit_application
\* all(field in data and data[field].strip() for field in required_fields)
RequiredOk(form) ==
    \A k \in RequiredFields : k \in DOMAIN form /\ Strip(form[k]) # <<>>

\* not resume_file or resume_file.filename == ''
ResumeMissing(upload) == upload = "none" \/ upload = "noname"

\* Variant: the resume is looked at before the fields are.
AppCheckFileFirst(form, upload) ==
    IF ResumeMissing(upload) THEN "Resume file is required."
    ELSE IF ~RequiredOk(form) THEN "All required fields must be filled."
    ELSE IF ~EmailMatch(form["email"]) THEN "Invalid email format."
    ELSE IF ~PhoneMatch(form["phone"]) THEN "Invalid phone number format."
    ELSE ""

\* The checks of submit_application before its first write, in the order
\* of the code: the message of the first one that fails, or "" when all pass.
AppCheck(form, upload) ==
    IF ~RequiredOk(form) THEN "All required fields must be filled."
    ELSE IF ~EmailMatch(form["email"]) THEN "Invalid email format."
    ELSE IF ~PhoneMatch(form["phone"]) THEN "Invalid phone number format."
    ELSE IF ResumeMissing(upload) THEN "Resume file is required."
    ELSE ""

\* Lines 215-236: read the form and validate; a failed check answers 400.
SubmitApplication(p, form, upload) ==
    /\ pc[p] = "idle"
    /\ nStarted < MaxRequests
    /\ nStarted' = nStarted + 1
    /\ req' = [req EXCEPT ![p] =
                  [kind |-> "application", form |-> form, upload |-> upload]]
    /\ before' = [before EXCEPT ![p] = [store |-> store, resumes |-> resumes]]
    /\ IF AppCheck(form, upload) # ""
       THEN /\ resp' = [resp EXCEPT ![p] =
                            Resp(400, FALSE, AppCheck(form, upload), "")]
            /\ pc' = [pc EXCEPT ![p] = "done"]
       ELSE /\ pc' = [pc EXCEPT ![p] = "intake"]
            /\ UNCHANGED resp
    /\ UNCHANGED <<applications, data, saved, mails, career, store, resumes,
                   nextUuid, snap, nOk, nFailed, fault, lastFault>>

\* application_data: the uuid4 of the record and the path of the saved
\* resume (a path is identified by the uuid4 that prefixes the file name).
NewRecord(fileUuid, idUuid) == [id |-> idUuid, resume_path |-> fileUuid]

\* Lines 238-258: name the upload, save it, build application_data.
\* resume_file.save may fail before or after the file is created; the
\* exception reaches the handler's except clause.
FileIntake(p, io) ==
    /\ pc[p] = "intake"
    /\ nextUuid' = nextUuid + 2
    /\ IF io = "ok"
       THEN /\ resumes' = resumes \cup {nextUuid}
            /\ data' = [data EXCEPT ![p] = NewRecord(nextUuid, nextUuid + 1)]
            /\ pc' = [pc EXCEPT ![p] = "save_check"]
            /\ UNCHANGED <<resp, nFailed, fault>>
       ELSE /\ resumes' = IF io = "write_fails" THEN resumes \cup {nextUuid}
                                                ELSE resumes
            /\ resp' = [resp EXCEPT ![p] = AppFault(SaveError(io))]
            /\ fault' = [fault EXCEPT ![p] = SaveError(io)]
            /\ nFailed' = nFailed + 1
            /\ pc' = [pc EXCEPT ![p] = "done"]
            /\ UNCHANGED data
    /\ UNCHANGED <<req, applications, saved, mails, career, store, before, snap,
                   nStarted, nOk, lastFault>>

\* ---------------------------------------------------- save_application_data
\* Variant: the file is never read back, every save starts from [].
StoreIsEmptyAlways(st) == TRUE

\* not os.path.exists(APPLICATIONS_DB) or os.path.getsize(APPLICATIONS_DB) == 0
StoreIsEmpty(st) == ~st.exists \/ (~st.corrupt /\ st.recs = <<>>)

\* Response of submit_application when save_application_data returned False.
SaveFailed ==
    Resp(500, FALSE, "Failed to save application. Please try again later.", "")

\* Variant: the flag save_application_data returns is ignored.
AfterSaveIgnore(ok) == "send_career"

\* Line 261 of submit_application: a failed save ends the request, a
\* successful one goes on to the confirmation email.
AfterSave(ok) == IF ok THEN "send_career" ELSE "done"

\* The except clause of save_application_data and the handler's answer to it.
SaveReturnsFalse(p) ==
    /\ saved' = [saved EXCEPT ![p] = "failed"]
    /\ pc' = [pc EXCEPT ![p] = AfterSave(FALSE)]
    /\ IF AfterSave(FALSE) = "done"
       THEN /\ resp' = [resp EXCEPT ![p] = SaveFailed]
            /\ nFailed' = nFailed + 1
       ELSE UNCHANGED <<resp, nFailed>>

\* Line 53: a missing or zero-byte file stands for the empty array.
SaveCheck(p) ==
    /\ pc[p] = "save_check"
    /\ IF StoreIsEmpty(store)
       THEN /\ applications' = [applications EXCEPT ![p] = <<>>]
            /\ snap' = [snap EXCEPT ![p] = <<>>]
            /\ pc' = [pc EXCEPT ![p] = "save_open"]
       ELSE /\ pc' = [pc EXCEPT ![p] = "save_read"]
            /\ UNCHANGED <<applications, snap>>
    /\ UNCHANGED <<req, resp, data, saved, mails, career, store, resumes,
                   nextUuid, before, nStarted, nOk, nFailed,
                   fault, lastFault>>

\* json.load succeeds on a file that holds a complete array; a zero-byte
\* file (truncated since line 53) and a partly written one do not parse.
Parses(st) == st.exists /\ ~st.corrupt /\ st.recs # <<>>

\* Lines 56-57: open the file and parse it.
SaveRead(p, io) ==
    /\ pc[p] = "save_read"
    /\ IF io = "ok" /\ Parses(store)
       THEN /\ applications' = [applications EXCEPT ![p] = store.recs]
            /\ snap' = [snap EXCEPT ![p] = store.recs]
            /\ pc' = [pc EXCEPT ![p] = "save_open"]
            /\ UNCHANGED <<resp, saved, nFailed>>
       ELSE /\ SaveReturnsFalse(p)
            /\ UNCHANGED <<applications, snap>>
    /\ UNCHANGED <<req, data, mails, career, store, resumes, nextUuid,
                   before, nStarted, nOk, fault, lastFault>>

\* Lines 59-61: append to the local list and open the file for writing,
\* which truncates it.
SaveOpen(p, io) ==
    /\ pc[p] = "save_open"
    /\ IF io = "ok"
       THEN /\ applications' = [applications EXCEPT ![p] = Append(@, data[p])]
            /\ store' = EmptyStore
            /\ pc' = [pc EXCEPT ![p] = "save_dump"]
            /\ UNCHANGED <<resp, saved, nFailed>>
       ELSE /\ SaveReturnsFalse(p)
            /\ UNCHANGED <<applications, store>>
    /\ UNCHANGED <<req, data, mails, career, resumes, nextUuid, before, snap,
                   nStarted, nOk, fault, lastFault>>

CorruptStore == [exists |-> TRUE, corrupt |-> TRUE, recs |-> <<>>]

\* Variant: the new record is added to whatever the file holds at write time.
DumpOutcomesAppend(st, mine) ==
    {[exists |-> TRUE, corrupt |-> FALSE,
      recs |-> Append(st.recs, mine[Len(mine)])]}

\* What the file may hold after a worker wrote the array `mine` from offset 0
\* over the file `st`: its array when the file was still empty; when another
\* writer filled the file since this worker truncated it, the bytes overlay
\* and the outcome is this worker's array or no JSON document at all.
DumpOutcomes(st, mine) ==
    IF st = EmptyStore
    THEN {[exists |-> TRUE, corrupt |-> FALSE, recs |-> mine]}
    ELSE {[exists |-> TRUE, corrupt |-> FALSE, recs |-> mine], CorruptStore}

\* What the file may hold after json.dump failed part way: what it held
\* (nothing reached the file) or a partly written document.
FailedDumpOutcomes(st) == {st, CorruptStore}

\* Lines 62-63: serialize the list into the file and close it.
SaveDump(p, io, out) ==
    /\ pc[p] = "save_dump"
    /\ IF io = "ok"
       THEN /\ out \in DumpOutcomes(store, applications[p])
            /\ store' = out
            /\ saved' = [saved EXCEPT ![p] = "ok"]
            /\ pc' = [pc EXCEPT ![p] = AfterSave(TRUE)]
            /\ UNCHANGED <<resp, nFailed>>
       ELSE /\ out \in FailedDumpOutcomes(store)
            /\ store' = out
            /\ SaveReturnsFalse(p)
    /\ UNCHANGED <<req, applications, data, mails, career, resumes, nextUuid,
                   before, snap, nStarted, nOk, fault, lastFault>>

\* -------------------------------------------------- send_career_reply_email
\* Variant: the template is read outside the try block.
CareerReplyNoTry(template, logo, smtpOk) ==
    IF template # "ok"
    THEN [raised |-> TRUE, result |-> FALSE, logo |-> FALSE, sent |-> FALSE]
    ELSE IF logo = "missing"
    THEN [raised |-> FALSE, result |-> smtpOk, logo |-> FALSE, sent |-> TRUE]
    ELSE IF logo = "unreadable"
    THEN [raised |-> FALSE, result |-> FALSE, logo |-> FALSE, sent |-> FALSE]
    ELSE [raised |-> FALSE, result |-> smtpOk, logo |-> TRUE, sent |-> TRUE]

\* Outcome of send_career_reply_email for a template that can be read or
\* not, a logo that is present, missing (or empty) or unreadable, and a relay
\* that accepts the message or not.  Everything after the Message is built
\* runs inside try/except Exception, so nothing is raised to the caller.
CareerReply(template, logo, smtpOk) ==
    IF template # "ok"
    THEN [raised |-> FALSE, result |-> FALSE, logo |-> FALSE, sent |-> FALSE]
    ELSE IF logo = "missing"
    THEN [raised |-> FALSE, result |-> smtpOk, logo |-> FALSE, sent |-> TRUE]
    ELSE IF logo = "unreadable"
    THEN [raised |-> FALSE, result |-> FALSE, logo |-> FALSE, sent |-> FALSE]
    ELSE [raised |-> FALSE, result |-> smtpOk, logo |-> TRUE, sent |-> TRUE]

AppOk ==
    Resp(200, TRUE,
         "Thank you for your application! We will review it and get back to you soon.",
         "")

\* Lines 267-286: call send_career_reply_email, ignore its flag, answer 200;
\* an exception it raised would reach the handler's except clause.
SendCareer(p, template, logo, smtpOk) ==
    LET r == CareerReply(template, logo, smtpOk) IN
    /\ pc[p] = "send_career"
    /\ career' = [career EXCEPT ![p] =
                     [called |-> TRUE, result |-> r.result, logo |-> r.logo,
                      template |-> template,
                      logoFile |-> IF template = "ok" THEN logo ELSE "",
                      smtpOk |-> r.sent /\ smtpOk]]
    /\ mails' = [mails EXCEPT ![p] =
                    IF r.sent
                    THEN {[kind |-> "career", delivered |-> r.result]}
                    ELSE {}]
    /\ IF r.raised
       THEN /\ resp' = [resp EXCEPT ![p] = AppFault("career email")]
            /\ fault' = [fault EXCEPT ![p] = "career email"]
            /\ nFailed' = nFailed + 1
            /\ UNCHANGED nOk
       ELSE /\ resp' = [resp EXCEPT ![p] = AppOk]
            /\ nOk' = nOk + 1
            /\ UNCHANGED <<nFailed, fault>>
    /\ pc' = [pc EXCEPT ![p] = "done"]
    /\ UNCHANGED <<req, applications, data, saved, store, resumes, nextUuid,
                   before, snap, nStarted, lastFault>>

\* The response has been sent; the worker is free for the next request.
Finish(p) ==
    /\ pc[p] = "done"
    /\ pc' = [pc EXCEPT ![p] = "idle"]
    /\ lastFault' = IF fault[p] # ""
                    THEN [kind |-> req[p].kind, cause |-> fault[p], resp |-> resp[p]]
                    ELSE lastFault
    /\ req' = [req EXCEPT ![p] = NoReq]
    /\ resp' = [resp EXCEPT ![p] = NoResp]
    /\ applications' = [applications EXCEPT ![p] = <<>>]
    /\ data' = [data EXCEPT ![p] = NoData]
    /\ saved' = [saved EXCEPT ![p] = "none"]
    /\ mails' = [mails EXCEPT ![p] = {}]
    /\ career' = [career EXCEPT ![p] = NoCareer]
    /\ before' = [before EXCEPT ![p] = NoBefore]
    /\ snap' = [snap EXCEPT ![p] = <<>>]
    /\ fault' = [fault EXCEPT ![p] = ""]
    /\ UNCHANGED <<store, resumes, nextUuid, nStarted, nOk, nFailed>>

\* ------------------------------------------------------------ specifications
\* No other worker is handling a request.
Alone(p) == \A q \in Procs \ {p} : pc[q] = "idle"

Contact(p) ==
    \E payload \in ContactPayloads :
        \E receiver \in BOOLEAN, companyOk \in BOOLEAN, clientOk \in BOOLEAN :
            SubmitContact(p, payload, receiver, companyOk, clientOk)

Application(p) ==
    \E r \in AppRequests : SubmitApplication(p, r.form, r.upload)

Intake(p) == \E io \in {"ok", "open_fails", "write_fails"} : FileIntake(p, io)

Read(p) == \E io \in {"ok", "fails"} : SaveRead(p, io)

Open(p) == \E io \in {"ok", "fails"} : SaveOpen(p, io)

Dump(p) ==
    /\ pc[p] = "save_dump"
    /\ \E io \in {"ok", "fails"} :
          \E out \in DumpOutcomes(store, applications[p])
                        \cup FailedDumpOutcomes(store) :
              SaveDump(p, io, out)

Career(p) ==
    \E template \in {"ok", "missing"}, logo \in {"present", "missing", "unreadable"},
       smtpOk \in BOOLEAN :
        SendCareer(p, template, logo, smtpOk)

Step(p) ==
    \/ Intake(p)
    \/ SaveCheck(p)
    \/ Read(p)
    \/ Open(p)
    \/ Dump(p)
    \/ Career(p)
    \/ Finish(p)

\* A request arrives while no other is being handled.
NextContact == \E p \in Procs : Alone(p) /\ Contact(p)

NextApplication == \E p \in Procs : Alone(p) /\ Application(p)

\* One request at a time: the requests of the sequential claims.
Next ==
    \/ NextContact
    \/ NextApplication
    \/ \E p \in Procs : Step(p)

Spec == Init /\ [][Next]_vars

\* Two workers handle well-formed application submissions at the same time.
NextRace ==
    \/ \E p \in Procs : SubmitApplication(p, GoodForm, "file")
    \/ \E p \in Procs : Step(p)

SpecRace == Init /\ [][NextRace]_vars

\* ------------------------------------------------------------------ claims
IsApp(p) == req[p].kind = "application"
IsContact(p) == req[p].kind = "contact"
Answered(p) == pc[p] = "done"
Quiet == \A p \in Procs : pc[p] \in {"idle", "done"}
InStore(d) == ~store.corrupt /\ \E i \in 1..Len(store.recs) : store.recs[i] = d
InSeq(d, sq) == \E i \in 1..Len(sq) : sq[i] = d
IsPrefix(a, b) == Len(a) <= Len(b) /\ SubSeq(b, 1, Len(a)) = a

\* C1: when two application submissions both answered 200 and each read the
\* store before the other wrote its record (neither saw the other's record),
\* the store file does not hold both new records: one of them is lost.
C1_LostUpdate ==
    \A p \in Procs : \A q \in Procs \ {p} :
        ( /\ Answered(p) /\ Answered(q)
          /\ resp[p] = AppOk /\ resp[q] = AppOk
          /\ ~InSeq(data[p], snap[q]) /\ ~InSeq(data[q], snap[p]) )
        => ~(InStore(data[p]) /\ InStore(data[q]))

\* C1 witness: both requests answered 200 with success, both read the same
\* array, and the file is a JSON array holding one of the two records only.
C1_Witness ==
    \E p \in Procs : \E q \in Procs \ {p} :
        /\ Answered(p) /\ Answered(q)
        /\ resp[p] = AppOk /\ resp[q] = AppOk
        /\ resp[p].status = 200 /\ resp[p].success
        /\ snap[p] = snap[q]
        /\ Parses(store)
        /\ store.recs = Append(snap[q], data[q])
        /\ ~InStore(data[p])

\* C2: after N >= 1 sequential application submissions that all succeeded
\* (none answered 500), the store file parses to an array of exactly N
\* records with pairwise different ids, each resume path naming a file of
\* the resume directory.
C2_RoundTrip ==
    (Quiet /\ nFailed = 0 /\ nOk >= 1) =>
        /\ Parses(store)
        /\ Len(store.recs) = nOk
        /\ \A i \in 1..Len(store.recs) : \A j \in 1..Len(store.recs) :
              i # j => store.recs[i].id # store.recs[j].id
        /\ \A i \in 1..Len(store.recs) : store.recs[i].resume_path \in resumes

\* C2 witness: two or more successful submissions and nothing else failed.
C2_Witness ==
    /\ Quiet /\ nFailed = 0 /\ nOk >= 2
    /\ Len(store.recs) = nOk

\* C3: a contact object whose four fields are present and non-empty is
\* answered 200 with success:true whatever the two sends did; the company
\* notification is attempted exactly when the operator address is set, the
\* confirmation always, and only the message depends on the confirmation.
C3_ContactAlways200 ==
    \A p \in Procs :
        ( /\ Answered(p) /\ IsContact(p)
          /\ req[p].payload.shape = "object"
          /\ \A k \in RequiredContact :
                k \in DOMAIN req[p].payload.fields /\ req[p].payload.fields[k] # <<>> )
        => /\ resp[p].status = 200
           /\ resp[p].success
           /\ \E m \in mails[p] : m.kind = "client"
           /\ (\E m \in mails[p] : m.kind = "company") <=> req[p].receiver
           /\ \A m \in mails[p] :
                 m.kind = "client" =>
                     resp[p].msg = ContactOkText \o
                         (IF m.delivered THEN ContactSentText ELSE ContactNotSentText)

\* C3 witness: a valid contact request answered 200 although both the
\* company notification and the confirmation failed.
C3_Witness ==
    \E p \in Procs :
        /\ Answered(p) /\ IsContact(p)
        /\ resp[p].status = 200
        /\ [kind |-> "company", delivered |-> FALSE] \in mails[p]
        /\ [kind |-> "client", delivered |-> FALSE] \in mails[p]

\* C4 (as claimed): a contact object in which one of the four fields is
\* absent or empty after trimming whitespace is answered 400 with
\* success:false and no email is sent.
C4_BlankRejected ==
    \A p \in Procs :
        ( /\ Answered(p) /\ IsContact(p)
          /\ req[p].payload.shape = "object"
          /\ \E k \in RequiredContact :
                \/ k \notin DOMAIN req[p].payload.fields
                \/ Strip(req[p].payload.fields[k]) = <<>> )
        => /\ resp[p].status = 400
           /\ ~resp[p].success
           /\ mails[p] = {}

\* The claim's shapes: the whole string is ten digits starting with 6..9;
\* the whole string is local@domain.tld without whitespace or a second "@".
PhoneExact(s) == PhoneShapeAt(s, Len(s))
EmailExact(s) == EmailShapeAt(s, Len(s))

\* C5 (as claimed): an application submission whose required fields are all
\* non-empty is answered 400 whenever its phone or its email is not exactly
\* of the shape, so it never gets past validation.
C5_ExactFormats ==
    \A p \in Procs :
        ( /\ IsApp(p)
          /\ RequiredOk(req[p].form)
          /\ ~(PhoneExact(req[p].form["phone"]) /\ EmailExact(req[p].form["email"])) )
        => (Answered(p) /\ resp[p].status = 400)

\* C6: when save_application_data failed (the file could not be read, parsed
\* or written), the request is answered 500 with success:false and the
\* career confirmation email is never attempted for it.
C6_SaveFailureIs500 ==
    \A p \in Procs :
        saved[p] = "failed" =>
            /\ Answered(p)
            /\ resp[p].status = 500
            /\ ~resp[p].success
            /\ ~career[p].called
            /\ mails[p] = {}

\* C6 witness: a request whose save failed on a store file that does not
\* parse, answered.
C6_Witness ==
    \E p \in Procs :
        /\ saved[p] = "failed" /\ Answered(p)
        /\ store.corrupt
        /\ resp[p] = SaveFailed

\* C7: once the store append succeeded, the answered request is a 200 with
\* success:true whatever send_career_reply_email met: it returns false for a
\* missing template, an unreadable logo or a failing relay, true without the
\* logo when the logo is missing and the relay accepts, and never raises.
C7_CareerNeverFails ==
    \A p \in Procs :
        (saved[p] = "ok" /\ Answered(p)) =>
            /\ resp[p].status = 200
            /\ resp[p].success
            /\ career[p].called
            /\ fault[p] = ""
            /\ career[p].template # "ok" => ~career[p].result
            /\ career[p].logoFile = "unreadable" => ~career[p].result
            /\ (career[p].template = "ok" /\ career[p].logoFile = "missing"
                    /\ career[p].smtpOk)
                  => (career[p].result /\ ~career[p].logo)
            /\ (career[p].template = "ok" /\ career[p].logoFile # "unreadable"
                    /\ ~career[p].smtpOk)
                  => ~career[p].result

\* C7 witness: a recorded submission answered 200 although the template
\* could not be read.
C7_Witness ==
    \E p \in Procs :
        /\ saved[p] = "ok" /\ Answered(p)
        /\ career[p].called /\ career[p].template = "missing"
        /\ ~career[p].result
        /\ resp[p].status = 200

\* The text of a response body.
Body(r) == <<r.msg, r.detail>>

\* C8 (as claimed): on either endpoint, a request that ended in the
\* catch-all except clause gets the same 500 body as an earlier request of
\* that endpoint that ended there with a different error detail.
C8_GenericFaultBody ==
    \A p \in Procs :
        ( /\ Answered(p)
          /\ fault[p] # ""
          /\ lastFault.kind = req[p].kind
          /\ lastFault.cause # fault[p] )
        => Body(resp[p]) = Body(lastFault.resp)

\* C9 (as claimed): after each sequential application submission the store
\* is a JSON array that has the array from before the submission as a
\* prefix: that array plus the new record after a 200, that array unchanged
\* otherwise.
C9_AppendOnly ==
    \A p \in Procs :
        (Answered(p) /\ IsApp(p)) =>
            /\ ~store.corrupt
            /\ IsPrefix(before[p].store.recs, store.recs)
            /\ resp[p].status = 200 =>
                  store.recs = Append(before[p].store.recs, data[p])
            /\ resp[p].status # 200 => store.recs = before[p].store.recs

\* C10: an application submission answered 400 has left the store file and
\* the resume directory as they were, attempted no save and no email; and the
\* message names the first failing check in the order required fields,
\* email format, phone format, resume file.
C10_RejectedLeavesNoTrace ==
    \A p \in Procs :
        (Answered(p) /\ IsApp(p) /\ resp[p].status = 400) =>
            LET f == req[p].form
                m == resp[p].msg
            IN  /\ ~resp[p].success
                /\ store = before[p].store
                /\ resumes = before[p].resumes
                /\ data[p] = NoData
                /\ saved[p] = "none"
                /\ mails[p] = {}
                /\ ~career[p].called
                /\ \/ m = "All required fields must be filled." /\ ~RequiredOk(f)
                   \/ /\ m = "Invalid email format."
                      /\ RequiredOk(f) /\ ~EmailMatch(f["email"])
                   \/ /\ m = "Invalid phone number format."
                      /\ RequiredOk(f) /\ EmailMatch(f["email"])
                      /\ ~PhoneMatch(f["phone"])
                   \/ /\ m = "Resume file is required."
                      /\ RequiredOk(f) /\ EmailMatch(f["email"])
                      /\ PhoneMatch(f["phone"])
                      /\ req[p].upload \in {"none", "noname"}

\* C10 witness: a request with a bad email, a bad phone and no resume,
\* answered 400 for its email.
C10_Witness ==
    \E p \in Procs :
        /\ Answered(p) /\ IsApp(p) /\ resp[p].status = 400
        /\ resp[p].msg = "Invalid email format."
        /\ ~PhoneMatch(req[p].form["phone"])
        /\ req[p].upload = "none"

====
